---- MODULE Spec2Model ----
(***************************************************************************)
(* Model of src/addr.rs of the uds crate: the UnixSocketAddr value type,   *)
(* its constructors, the view derivation (UnixSocketAddrRef::from), the    *)
(* FFI round-trip normaliser (new_from_ffi), from_raw and the comparison   *)
(* impls.  Byte arrays are sequences; the Rust index i of sun_path is the  *)
(* sequence index i + 1.                                                   *)
(***************************************************************************)
EXTENDS Integers, Sequences, FiniteSets, TLC

VARIABLES os, op, arg, res, cur

vars == <<os, op, arg, res, cur>>

(* ---------------------------------------------------------------------- *)
(* Bounds and program constants                                            *)
(* ---------------------------------------------------------------------- *)

\* size of sockaddr_un.sun_path (108 on Linux, 104 on the BSDs), scaled down
SunPathLen == 3

NUL == 0
DOT == 46
SLASH == 47
AT == 64
AF_UNIX == 1

\* the byte values the code distinguishes: NUL, '.', '/' and '@'
\* ('@' and '.' are ordinary path bytes wherever they are not a first byte)
Bytes == {NUL, DOT, SLASH, AT}

\* address families a foreign call or a raw pointer can present
Families == {AF_UNIX, AF_UNIX + 1}

\* the layouts of sockaddr_un the crate is compiled for: Linux/Android
\* (abstract addresses), a System V layout without them, and the BSD/macOS
\* layout where a one byte sun_len precedes a one byte sun_family
Platforms ==
    { [name |-> "linux", sa_family_size |-> 2, sun_path_at |-> 2, abstract |-> TRUE],
      [name |-> "sysv",  sa_family_size |-> 2, sun_path_at |-> 2, abstract |-> FALSE],
      [name |-> "bsd",   sa_family_size |-> 1, sun_path_at |-> 2, abstract |-> FALSE] }

\* byte strings of length at most n
ByteSeqs(n) == UNION { [1..k -> Bytes] : k \in 0..n }

\* inputs handed to the constructors: one byte longer than sun_path at most
MaxInputLen == SunPathLen + 1
Inputs == ByteSeqs(MaxInputLen)

\* the possible contents of a sun_path array
SunPaths == [1..SunPathLen -> Bytes]

(* ---------------------------------------------------------------------- *)
(* Layout                                                                  *)
(* ---------------------------------------------------------------------- *)

\* mem::size_of::<sockaddr_un>()
size_of_sockaddr_un == os.sun_path_at + SunPathLen

\* mem::size_of::<sa_family_t>()
size_of_sa_family_t == os.sa_family_size

path_offset == size_of_sockaddr_un - SunPathLen

has_abstract_addresses == os.abstract

(* ---------------------------------------------------------------------- *)
(* Results                                                                 *)
(* ---------------------------------------------------------------------- *)

NoAddr == [sun_family |-> 0, sun_path |-> <<>>, len |-> 0]

Ok(a) == [status |-> "ok", kind |-> "", addr |-> a]
Err(k) == [status |-> "err", kind |-> k, addr |-> NoAddr]
Panic == [status |-> "panic", kind |-> "", addr |-> NoAddr]

\* io::Error::new(kind, message), where the message tells two errors of one
\* kind apart
ErrMsg(k, m) == [status |-> "err", kind |-> k, addr |-> NoAddr, msg |-> m]

\* dst.iter_mut().zip(src): overwrite dst from index `from`, stop at the
\* shorter of the two
zip_copy(dst, from, src) ==
    [i \in 1..Len(dst) |->
        IF i >= from /\ i - from + 1 <= Len(src) THEN src[i - from + 1] ELSE dst[i]]

HasNul(s) == \E i \in 1..Len(s) : s[i] = NUL

(* ---------------------------------------------------------------------- *)
(* Constructors                                                            *)
(* ---------------------------------------------------------------------- *)

new_unspecified ==
    [sun_family |-> AF_UNIX,
     sun_path |-> [i \in 1..SunPathLen |-> 0],
     len |-> size_of_sa_family_t]

max_path_len == Len(new_unspecified.sun_path)

from_path_rejects_full(path) ==
    LET addr == new_unspecified
        capacity == Len(addr.sun_path)
    IN  IF path = <<>> THEN ErrMsg("NotFound", "path is empty")
        ELSE IF Len(path) >= capacity
        THEN ErrMsg("InvalidInput", "path is too long for an unix socket address")
        ELSE IF HasNul(path)
        THEN ErrMsg("InvalidInput", "path cannot contain nul bytes")
        ELSE Ok([addr EXCEPT !.sun_path = zip_copy(addr.sun_path, 1, path),
                             !.len = path_offset + Len(path) + 1])

from_path_nul_first(path) ==
    LET addr == new_unspecified
        capacity == Len(addr.sun_path)
    IN  IF path = <<>> THEN ErrMsg("NotFound", "path is empty")
        ELSE IF HasNul(path)
        THEN ErrMsg("InvalidInput", "path cannot contain nul bytes")
        ELSE IF Len(path) > capacity
        THEN ErrMsg("InvalidInput", "path is too long for an unix socket address")
        ELSE Ok([addr EXCEPT !.sun_path = zip_copy(addr.sun_path, 1, path),
                             !.len = path_offset + Len(path)
                                     + (IF Len(path) < capacity THEN 1 ELSE 0)])

from_path(path) ==
    LET addr == new_unspecified
        capacity == Len(addr.sun_path)
    IN  IF path = <<>> THEN ErrMsg("NotFound", "path is empty")
        ELSE IF Len(path) > capacity
        THEN ErrMsg("InvalidInput", "path is too long for an unix socket address")
        ELSE IF HasNul(path)
        THEN ErrMsg("InvalidInput", "path cannot contain nul bytes")
        ELSE Ok([addr EXCEPT !.sun_path = zip_copy(addr.sun_path, 1, path),
                             !.len = path_offset + Len(path)
                                     + (IF Len(path) < capacity THEN 1 ELSE 0)])

max_abstract_len == Len(new_unspecified.sun_path) - 1

from_abstract_off_by_one(name) ==
    LET addr == new_unspecified
    IN  IF ~has_abstract_addresses THEN Err("AddrNotAvailable")
        ELSE IF Len(name) >= max_abstract_len THEN Err("InvalidInput")
        ELSE Ok([addr EXCEPT !.sun_path = zip_copy(addr.sun_path, 2, name),
                             !.len = path_offset + 1 + Len(name)])

from_abstract(name) ==
    LET addr == new_unspecified
    IN  IF ~has_abstract_addresses THEN Err("AddrNotAvailable")
        ELSE IF Len(name) > max_abstract_len THEN Err("InvalidInput")
        ELSE Ok([addr EXCEPT !.sun_path = zip_copy(addr.sun_path, 2, name),
                             !.len = path_offset + 1 + Len(name)])

new_at_only(addr) ==
    IF addr = <<>> THEN Ok(new_unspecified)
    ELSE IF addr[1] = AT THEN from_abstract(Tail(addr))
    ELSE from_path(addr)

new(addr) ==
    IF addr = <<>> THEN Ok(new_unspecified)
    ELSE IF addr[1] = AT \/ addr[1] = NUL THEN from_abstract(Tail(addr))
    ELSE from_path(addr)

\* the std SocketAddr values from_std can be given: what as_pathname() and
\* is_unnamed() answer
StdAddrs ==
    { [pathname |-> <<p>>, unnamed |-> FALSE] :
          p \in { q \in ByteSeqs(SunPathLen) : ~HasNul(q) } }
    \cup { [pathname |-> <<>>, unnamed |-> TRUE],
           [pathname |-> <<>>, unnamed |-> FALSE] }

\* Some(addr) is Ok(addr), None is Err("None"), a failed expect() is a panic
from_std(addr) ==
    IF addr.pathname # <<>>
    THEN (IF from_path(addr.pathname[1]).status = "ok"
          THEN from_path(addr.pathname[1]) ELSE Panic)
    ELSE IF addr.unnamed THEN Ok(new_unspecified)
    ELSE Err("None")

\* path.to_bytes(): the content of a CStr has no NUL byte
CStrs == { q \in Inputs : ~HasNul(q) }

from_c_str_no_nul(path) ==
    LET addr == new_unspecified
    IN  IF path = <<>> THEN Ok(addr)
        ELSE IF Len(path) > Len(addr.sun_path) THEN Err("InvalidInput")
        ELSE Ok([addr EXCEPT !.sun_path = zip_copy(addr.sun_path, 1, path),
                             !.len = path_offset + Len(path)])

from_c_str(path) ==
    LET addr == new_unspecified
    IN  IF path = <<>> THEN Ok(addr)
        ELSE IF Len(path) > Len(addr.sun_path) THEN Err("InvalidInput")
        ELSE Ok([addr EXCEPT !.sun_path = zip_copy(addr.sun_path, 1, path),
                             !.len = path_offset + Len(path)
                                     + (IF Len(path) < Len(addr.sun_path) THEN 1 ELSE 0)])

(* ---------------------------------------------------------------------- *)
(* View derivation: impl From<&UnixSocketAddr> for UnixSocketAddrRef       *)
(* ---------------------------------------------------------------------- *)

\* A derived view.  `bytes` is the payload the variant borrows, `reads` the
\* Rust indices of sun_path the derivation touched, `panicked` whether a
\* slice bound check failed.
View(k, b, r) == [kind |-> k, bytes |-> b, reads |-> r, panicked |-> FALSE]
ViewPanic(r) == [kind |-> "Panic", bytes |-> <<>>, reads |-> r, panicked |-> TRUE]

UnixSocketAddrRef_from_reads_next(addr) ==
    LET name_len == addr.len - path_offset
    IN  IF name_len <= 0 THEN View("Unnamed", <<>>, {})
        ELSE IF addr.sun_path[1] = NUL
        THEN (IF name_len > Len(addr.sun_path) THEN ViewPanic({0})
              ELSE View("Abstract", SubSeq(addr.sun_path, 2, name_len), 0..(name_len - 1)))
        ELSE (IF name_len >= Len(addr.sun_path) THEN ViewPanic({0})
              ELSE LET slice == SubSeq(addr.sun_path, 1, name_len)
                   IN  IF addr.sun_path[name_len + 1] = 0 /\ slice[Len(slice)] = 0
                       THEN View("Path", SubSeq(slice, 1, name_len - 1), 0..name_len)
                       ELSE View("Path", slice, 0..name_len))

UnixSocketAddrRef_from(addr) ==
    LET name_len == addr.len - path_offset
    IN  IF name_len <= 0 THEN View("Unnamed", <<>>, {})
        ELSE IF addr.sun_path[1] = NUL
        THEN (IF name_len > Len(addr.sun_path) THEN ViewPanic({0})
              ELSE View("Abstract", SubSeq(addr.sun_path, 2, name_len), 0..(name_len - 1)))
        ELSE (IF name_len > Len(addr.sun_path) THEN ViewPanic({0})
              ELSE LET slice == SubSeq(addr.sun_path, 1, name_len)
                   IN  IF slice[Len(slice)] = 0
                       THEN View("Path", SubSeq(slice, 1, name_len - 1), 0..(name_len - 1))
                       ELSE View("Path", slice, 0..(name_len - 1)))

as_ref(addr) == UnixSocketAddrRef_from(addr)

(* ---------------------------------------------------------------------- *)
(* Comparison of views: #[derive(PartialEq, Eq, Hash)] on                  *)
(* UnixSocketAddrRef, whose Path variant holds a &Path.  Two Paths are     *)
(* equal when their components are: separators that repeat or trail and    *)
(* "." components other than a leading one do not count.                   *)
(* ---------------------------------------------------------------------- *)

\* the maximal runs of bytes between separators, empty runs included
RECURSIVE Pieces(_)
Pieces(s) ==
    IF s = <<>> THEN << <<>> >>
    ELSE LET rest == Pieces(Tail(s))
         IN  IF Head(s) = SLASH THEN << <<>> >> \o rest
             ELSE << <<Head(s)>> \o Head(rest) >> \o Tail(rest)

RECURSIVE KeptPieces(_, _, _)
KeptPieces(pcs, i, has_root) ==
    IF i > Len(pcs) THEN <<>>
    ELSE (IF pcs[i] # <<>> /\ (pcs[i] # <<DOT>> \/ (i = 1 /\ ~has_root))
          THEN <<pcs[i]>> ELSE <<>>)
         \o KeptPieces(pcs, i + 1, has_root)

\* Path::components(): whether there is a root, then the components
path_components(p) ==
    LET has_root == p # <<>> /\ p[1] = SLASH
    IN  [has_root |-> has_root, parts |-> KeptPieces(Pieces(p), 1, has_root)]

\* the derived == of two views
UnixSocketAddrRef_eq(x, y) ==
    /\ x.kind = y.kind
    /\ IF x.kind = "Path" THEN path_components(x.bytes) = path_components(y.bytes)
       ELSE x.bytes = y.bytes

\* what the derived Hash feeds the hasher: the discriminant, then the payload
UnixSocketAddrRef_hash(x) ==
    IF x.kind = "Path" THEN <<x.kind, path_components(x.bytes)>>
    ELSE <<x.kind, x.bytes>>

BoolResult(panicked, v) ==
    IF panicked THEN [status |-> "panic", value |-> FALSE]
    ELSE [status |-> "ok", value |-> v]

\* impl PartialEq for UnixSocketAddr
eq(self, other) ==
    BoolResult(as_ref(self).panicked \/ as_ref(other).panicked,
               UnixSocketAddrRef_eq(as_ref(self), as_ref(other)))

\* impl Hash for UnixSocketAddr
hash(self) ==
    IF as_ref(self).panicked THEN [status |-> "panic", value |-> <<>>]
    ELSE [status |-> "ok", value |-> UnixSocketAddrRef_hash(as_ref(self))]

eq_bytes_no_skip(self, unescaped) ==
    LET v == as_ref(self)
    IN  BoolResult(v.panicked,
            IF v.kind = "Path" /\ unescaped # <<>> THEN v.bytes = unescaped
            ELSE IF v.kind = "Abstract" /\ unescaped # <<>> /\ unescaped[1] = NUL
            THEN v.bytes = unescaped
            ELSE IF v.kind = "Unnamed" /\ unescaped = <<>> THEN TRUE
            ELSE FALSE)

\* impl PartialEq<[u8]> for UnixSocketAddr: the path is compared by its
\* bytes, an abstract name with what follows a leading NUL
eq_bytes(self, unescaped) ==
    LET v == as_ref(self)
    IN  BoolResult(v.panicked,
            IF v.kind = "Path" /\ unescaped # <<>> THEN v.bytes = unescaped
            ELSE IF v.kind = "Abstract" /\ unescaped # <<>> /\ unescaped[1] = NUL
            THEN v.bytes = Tail(unescaped)
            ELSE IF v.kind = "Unnamed" /\ unescaped = <<>> THEN TRUE
            ELSE FALSE)

\* impl PartialEq<UnixSocketAddr> for [u8]
bytes_eq(unescaped, addr) == eq_bytes(addr, unescaped)

(* ---------------------------------------------------------------------- *)
(* Kind predicates used by the normaliser                                  *)
(* ---------------------------------------------------------------------- *)

is_abstract(self) ==
    IF has_abstract_addresses
    THEN self.len > path_offset /\ self.sun_path[1] = NUL
    ELSE FALSE

is_path(self) == self.len > path_offset /\ self.sun_path[1] # NUL

is_unnamed(self) ==
    IF has_abstract_addresses
    THEN self.len <= path_offset
    ELSE self.len <= path_offset \/ self.sun_path[1] = NUL

is_absolute_path(self) == self.len > path_offset /\ self.sun_path[1] = SLASH

is_relative_path(self) ==
    /\ self.len > path_offset
    /\ self.sun_path[1] # NUL
    /\ self.sun_path[1] # SLASH

(* ---------------------------------------------------------------------- *)
(* new_from_ffi                                                            *)
(* ---------------------------------------------------------------------- *)

\* What the wrapped operation does with the buffer it is handed: it fails
\* with an error of its own, or it returns `ret` and leaves `written` in the
\* sockaddr and the socklen_t.  The reported length may exceed the capacity.
FfiCalls ==
    { [ok |-> FALSE, error |-> e, ret |-> "none",
       written |-> [new_unspecified EXCEPT !.len = size_of_sockaddr_un]] :
          e \in {"WouldBlock", "NotConnected"} }
    \cup
    { [ok |-> TRUE, error |-> "", ret |-> "ret",
       written |-> [sun_family |-> f, sun_path |-> sp, len |-> l]] :
          f \in Families, sp \in SunPaths, l \in 0..(size_of_sockaddr_un + 2) }

\* The outcome of the validation and normalisation of what the operation
\* left: `writes` are the Rust indices of sun_path that were assigned.
Normalized(a, w) == [status |-> "ok", msg |-> "", addr |-> a, writes |-> w]
Rejected(m) == [status |-> "err", msg |-> m, addr |-> NoAddr, writes |-> {}]
IndexPanic == [status |-> "panic", msg |-> "", addr |-> NoAddr, writes |-> {}]

\* sun_path[i] with Rust's bound check
InBounds(a, i) == i >= 0 /\ i < Len(a.sun_path)

ffi_normalize_no_tolerance(addr, capacity) ==
    IF is_abstract(addr)
    THEN (IF addr.len > capacity THEN Rejected("abstract name was too long")
          ELSE Normalized(addr, {}))
    ELSE IF is_path(addr)
    THEN (IF addr.len > capacity THEN Rejected("path was too long")
          ELSE IF addr.len >= capacity
          THEN Normalized([addr EXCEPT !.len = capacity], {})
          ELSE IF ~InBounds(addr, addr.len - 1 - path_offset) THEN IndexPanic
          ELSE IF addr.sun_path[(addr.len - 1 - path_offset) + 1] # 0
          THEN (IF ~InBounds(addr, addr.len + 1 - 1 - path_offset) THEN IndexPanic
                ELSE Normalized(
                        [addr EXCEPT !.len = addr.len + 1,
                                     !.sun_path[(addr.len + 1 - 1 - path_offset) + 1] = 0],
                        {addr.len + 1 - 1 - path_offset}))
          ELSE Normalized(addr, {}))
    ELSE Normalized(addr, {})

ffi_normalize_no_write(addr, capacity) ==
    IF is_abstract(addr)
    THEN (IF addr.len > capacity THEN Rejected("abstract name was too long")
          ELSE Normalized(addr, {}))
    ELSE IF is_path(addr)
    THEN (IF addr.len > capacity + 1 THEN Rejected("path was too long")
          ELSE IF addr.len >= capacity
          THEN Normalized([addr EXCEPT !.len = capacity], {})
          ELSE IF ~InBounds(addr, addr.len - 1 - path_offset) THEN IndexPanic
          ELSE IF addr.sun_path[(addr.len - 1 - path_offset) + 1] # 0
          THEN Normalized([addr EXCEPT !.len = addr.len + 1], {})
          ELSE Normalized(addr, {}))
    ELSE Normalized(addr, {})

ffi_normalize_overwrites_last(addr, capacity) ==
    IF is_abstract(addr)
    THEN (IF addr.len > capacity THEN Rejected("abstract name was too long")
          ELSE Normalized(addr, {}))
    ELSE IF is_path(addr)
    THEN (IF addr.len > capacity + 1 THEN Rejected("path was too long")
          ELSE IF addr.len >= capacity
          THEN Normalized([addr EXCEPT !.len = capacity], {})
          ELSE IF ~InBounds(addr, addr.len - 1 - path_offset) THEN IndexPanic
          ELSE IF addr.sun_path[(addr.len - 1 - path_offset) + 1] # 0
          THEN Normalized(
                  [addr EXCEPT !.sun_path[(addr.len - 1 - path_offset) + 1] = 0],
                  {addr.len - 1 - path_offset})
          ELSE Normalized(addr, {}))
    ELSE Normalized(addr, {})

\* the checks and the normalisation that follow the family check
ffi_normalize(addr, capacity) ==
    IF is_abstract(addr)
    THEN (IF addr.len > capacity THEN Rejected("abstract name was too long")
          ELSE Normalized(addr, {}))
    ELSE IF is_path(addr)
    THEN (IF addr.len > capacity + 1 THEN Rejected("path was too long")
          ELSE IF addr.len >= capacity
          THEN Normalized([addr EXCEPT !.len = capacity], {})
          ELSE IF ~InBounds(addr, addr.len - 1 - path_offset) THEN IndexPanic
          ELSE IF addr.sun_path[(addr.len - 1 - path_offset) + 1] # 0
          THEN (IF ~InBounds(addr, addr.len + 1 - 1 - path_offset) THEN IndexPanic
                ELSE Normalized(
                        [addr EXCEPT !.len = addr.len + 1,
                                     !.sun_path[(addr.len + 1 - 1 - path_offset) + 1] = 0],
                        {addr.len + 1 - 1 - path_offset}))
          ELSE Normalized(addr, {}))
    ELSE Normalized(addr, {})

\* What new_from_ffi returns, with what it did on the way: `calls` is how
\* often it invoked the operation, `handed` the buffer and length it gave it.
FfiResult(status, kind, msg, a, ret, calls, handed, writes) ==
    [status |-> status, kind |-> kind, msg |-> msg, addr |-> a, ret |-> ret,
     calls |-> calls, handed |-> handed, writes |-> writes]

\* the Result of the validation turned into the Result of new_from_ffi
FfiFinish(call, n, calls, handed) ==
    IF n.status = "ok"
    THEN FfiResult("ok", "", "", n.addr, call.ret, calls, handed, n.writes)
    ELSE IF n.status = "err"
    THEN FfiResult("err", "InvalidData", n.msg, NoAddr, "none", calls, handed, {})
    ELSE FfiResult("panic", "", "", NoAddr, "none", calls, handed, {})

new_from_ffi_no_tolerance(call) ==
    LET addr0 == new_unspecified
        capacity == size_of_sockaddr_un
        handed == [addr0 EXCEPT !.len = capacity]
        addr == call.written
    IN  IF ~call.ok
        THEN FfiResult("err", call.error, "", NoAddr, "none", 1, handed, {})
        ELSE IF addr.sun_family # AF_UNIX
        THEN FfiResult("err", "InvalidData",
                       "file descriptor did not correspond to a Unix socket",
                       NoAddr, "none", 1, handed, {})
        ELSE FfiFinish(call, ffi_normalize_no_tolerance(addr, capacity), 1, handed)

new_from_ffi_family_late(call) ==
    LET addr0 == new_unspecified
        capacity == size_of_sockaddr_un
        handed == [addr0 EXCEPT !.len = capacity]
        addr == call.written
    IN  IF ~call.ok
        THEN FfiResult("err", call.error, "", NoAddr, "none", 1, handed, {})
        ELSE IF ffi_normalize(addr, capacity).status # "ok"
        THEN FfiFinish(call, ffi_normalize(addr, capacity), 1, handed)
        ELSE IF addr.sun_family # AF_UNIX
        THEN FfiResult("err", "InvalidData",
                       "file descriptor did not correspond to a Unix socket",
                       NoAddr, "none", 1, handed, {})
        ELSE FfiFinish(call, ffi_normalize(addr, capacity), 1, handed)

new_from_ffi_retries(call) ==
    LET addr0 == new_unspecified
        capacity == size_of_sockaddr_un
        handed == [addr0 EXCEPT !.len = capacity]
        addr == call.written
    IN  IF ~call.ok
        THEN FfiResult("err", call.error, "", NoAddr, "none", 2, handed, {})
        ELSE IF addr.sun_family # AF_UNIX
        THEN FfiResult("err", "InvalidData",
                       "file descriptor did not correspond to a Unix socket",
                       NoAddr, "none", 1, handed, {})
        ELSE FfiFinish(call, ffi_normalize(addr, capacity), 1, handed)

\* `call` is a FnOnce: it is invoked at the one place of the body that
\* names it, and `?` returns its error as it is
new_from_ffi(call) ==
    LET addr0 == new_unspecified
        capacity == size_of_sockaddr_un
        handed == [addr0 EXCEPT !.len = capacity]
        addr == call.written
    IN  IF ~call.ok
        THEN FfiResult("err", call.error, "", NoAddr, "none", 1, handed, {})
        ELSE IF addr.sun_family # AF_UNIX
        THEN FfiResult("err", "InvalidData",
                       "file descriptor did not correspond to a Unix socket",
                       NoAddr, "none", 1, handed, {})
        ELSE FfiFinish(call, ffi_normalize(addr, capacity), 1, handed)

(* ---------------------------------------------------------------------- *)
(* from_raw, from_raw_unchecked                                            *)
(* ---------------------------------------------------------------------- *)

\* A pointer and a length.  For a non-null pointer, sa_family and sun_path
\* are what memory holds at those places of the pointee; only the first
\* `len` bytes of the pointee are promised to be valid, so the bytes of
\* sun_path at Rust index len - path_offset and beyond are whatever a read
\* past the promised memory yields.
RawArgs ==
    { [null |-> TRUE, len |-> l, sa_family |-> AF_UNIX,
       sun_path |-> [i \in 1..SunPathLen |-> 0]] : l \in 0..(size_of_sockaddr_un + 1) }
    \cup
    { [null |-> FALSE, len |-> l, sa_family |-> f, sun_path |-> sp] :
          l \in 0..(size_of_sockaddr_un + 1), f \in Families, sp \in SunPaths }

from_raw_tight_low_bound(p) ==
    LET copy == new_unspecified
    IN  IF p.null /\ p.len = 0 THEN Ok(new_unspecified)
        ELSE IF p.null THEN Err("InvalidInput")
        ELSE IF p.len <= path_offset THEN Err("InvalidInput")
        ELSE IF p.len > path_offset + Len(copy.sun_path) THEN Err("InvalidInput")
        ELSE IF p.sa_family # AF_UNIX THEN Err("InvalidData")
        ELSE IF p.len # Len(copy.sun_path) THEN Panic
        ELSE Ok([copy EXCEPT !.sun_path = p.sun_path, !.len = p.len])

\* slice::from_raw_parts(sun_path_ptr, len) is a slice of `len` bytes, and
\* copy_from_slice panics unless source and destination have one length
from_raw(p) ==
    LET copy == new_unspecified
    IN  IF p.null /\ p.len = 0 THEN Ok(new_unspecified)
        ELSE IF p.null THEN Err("InvalidInput")
        ELSE IF p.len < path_offset THEN Err("InvalidInput")
        ELSE IF p.len > path_offset + Len(copy.sun_path) THEN Err("InvalidInput")
        ELSE IF p.sa_family # AF_UNIX THEN Err("InvalidData")
        ELSE IF p.len # Len(copy.sun_path) THEN Panic
        ELSE Ok([copy EXCEPT !.sun_path = p.sun_path, !.len = p.len])

\* the arguments that keep from_raw_unchecked's documented precondition
UncheckedArgs ==
    { [sun_family |-> f, sun_path |-> sp, len |-> l] :
          f \in Families, sp \in SunPaths, l \in 0..size_of_sockaddr_un }

from_raw_unchecked(a) == Ok(a)

(* ---------------------------------------------------------------------- *)
(* State machine                                                           *)
(*   os   the platform the crate was built for                             *)
(*   op   the last call, arg its argument, res what it returned            *)
(*   cur  the address value the program holds: <<>> or <<addr>>            *)
(* The constructors are functions of their argument alone, so each is      *)
(* called on a program holding nothing; Drop lets go of everything held.   *)
(* ---------------------------------------------------------------------- *)

\* the address a call returned, if it returned one
Returned(r) == IF r.status = "ok" THEN <<r.addr>> ELSE <<>>

Init ==
    /\ os \in Platforms
    /\ op = "init"
    /\ arg = <<>>
    /\ res = Err("")
    /\ cur = <<>>

Call(name, a, r) ==
    /\ op' = name
    /\ arg' = a
    /\ res' = r
    /\ cur' = Returned(r)
    /\ UNCHANGED os

Methods ==
    {"as_ref", "eq", "hash", "eq_bytes", "bytes_eq", "is_unnamed", "is_abstract",
     "is_path", "is_absolute_path", "is_relative_path"}

\* a method borrows the held value and leaves it as it is, so it is applied
\* to the value as its constructor returned it
Method(name, a, r) ==
    /\ op' = name
    /\ arg' = a
    /\ res' = r
    /\ UNCHANGED <<os, cur>>

New == op = "init" /\ \E s \in Inputs : Call("new", s, new(s))

NewUnspecified == op = "init" /\ Call("new_unspecified", <<>>, Ok(new_unspecified))

FromPath == op = "init" /\ \E p \in Inputs : Call("from_path", p, from_path(p))

FromAbstract == op = "init" /\ \E n \in Inputs : Call("from_abstract", n, from_abstract(n))

FromStd == op = "init" /\ \E a \in StdAddrs : Call("from_std", a, from_std(a))

FromCStr == op = "init" /\ \E p \in CStrs : Call("from_c_str", p, from_c_str(p))

NewFromFfi == op = "init" /\ \E c \in FfiCalls : Call("new_from_ffi", c, new_from_ffi(c))

FromRaw == op = "init" /\ \E p \in RawArgs : Call("from_raw", p, from_raw(p))

FromRawUnchecked == op = "init" /\ \E a \in UncheckedArgs : Call("from_raw_unchecked", a, from_raw_unchecked(a))

AsRef == cur # <<>> /\ op \notin Methods /\ Method("as_ref", <<>>, as_ref(cur[1]))

\* the values an address is compared with: it differs from the held one in
\* at most one byte of sun_path and by at most one in len
Others(a) ==
    { [a EXCEPT !.sun_path = sp, !.len = l] :
          sp \in { [a.sun_path EXCEPT ![i] = b] : i \in 1..SunPathLen, b \in Bytes },
          l \in { m \in {a.len - 1, a.len, a.len + 1} : m >= 0 /\ m <= size_of_sockaddr_un } }

Eq == cur # <<>> /\ op \notin Methods /\ \E b \in Others(cur[1]) : Method("eq", b, eq(cur[1], b))

Hash == cur # <<>> /\ op \notin Methods /\ Method("hash", <<>>, hash(cur[1]))

\* the byte strings an address is compared with: the empty one, its payload,
\* and its payload behind a NUL, behind an '@' and before a '/'
ByteForms(a) ==
    LET b == as_ref(a).bytes
    IN  {<<>>, b, <<NUL>> \o b, <<AT>> \o b, b \o <<SLASH>>}

EqBytes ==
    cur # <<>> /\ op \notin Methods /\
        \E s \in ByteForms(cur[1]) : Method("eq_bytes", s, eq_bytes(cur[1], s))

BytesEq ==
    cur # <<>> /\ op \notin Methods /\
        \E s \in ByteForms(cur[1]) : Method("bytes_eq", s, bytes_eq(s, cur[1]))

IsUnnamed ==
    cur # <<>> /\ op \notin Methods /\
        Method("is_unnamed", <<>>, BoolResult(FALSE, is_unnamed(cur[1])))

IsAbstract ==
    cur # <<>> /\ op \notin Methods /\
        Method("is_abstract", <<>>, BoolResult(FALSE, is_abstract(cur[1])))

IsPath ==
    cur # <<>> /\ op \notin Methods /\
        Method("is_path", <<>>, BoolResult(FALSE, is_path(cur[1])))

IsAbsolutePath ==
    cur # <<>> /\ op \notin Methods /\
        Method("is_absolute_path", <<>>, BoolResult(FALSE, is_absolute_path(cur[1])))

IsRelativePath ==
    cur # <<>> /\ op \notin Methods /\
        Method("is_relative_path", <<>>, BoolResult(FALSE, is_relative_path(cur[1])))

Drop ==
    /\ op # "init"
    /\ op' = "init"
    /\ arg' = <<>>
    /\ res' = Err("")
    /\ cur' = <<>>
    /\ UNCHANGED os

Next ==
    \/ New
    \/ NewUnspecified
    \/ FromPath
    \/ FromAbstract
    \/ FromStd
    \/ FromCStr
    \/ NewFromFfi
    \/ FromRaw
    \/ FromRawUnchecked
    \/ AsRef
    \/ Eq
    \/ Hash
    \/ EqBytes
    \/ BytesEq
    \/ IsUnnamed
    \/ IsAbstract
    \/ IsPath
    \/ IsAbsolutePath
    \/ IsRelativePath
    \/ Drop

Spec == Init /\ [][Next]_vars

(* ---------------------------------------------------------------------- *)
(* Properties                                                              *)
(* ---------------------------------------------------------------------- *)

Held == cur[1]

SameKindAndPayload(x, y) == x.kind = y.kind /\ x.bytes = y.bytes

\* C1: from_path(P) with 0 < len(P) <= max_path_len() and no NUL byte
\* succeeds, and the view of the returned address is Path(P), byte for
\* byte, also when P fills sun_path and no terminating NUL fits.
C1_FromPathYieldsPath ==
    (op = "from_path" /\ Len(arg) > 0 /\ Len(arg) <= SunPathLen /\ ~HasNul(arg))
        => /\ res.status = "ok"
           /\ ~as_ref(res.addr).panicked
           /\ as_ref(res.addr).kind = "Path"
           /\ as_ref(res.addr).bytes = arg

C1_Witness ==
    /\ op = "from_path"
    /\ Len(arg) = SunPathLen
    /\ ~HasNul(arg)
    /\ res.status = "ok"
    /\ res.addr.len = size_of_sockaddr_un

\* C2: from_abstract(N) fails with AddrNotAvailable on a platform without
\* abstract addresses whatever len(N); with them it returns Abstract(N) with
\* len = offset + 1 + len(N) when len(N) <= max_abstract_len() (NUL bytes
\* and the empty name allowed) and fails with InvalidInput when N is longer.
C2_FromAbstract ==
    op = "from_abstract"
        => IF ~os.abstract THEN res = Err("AddrNotAvailable")
           ELSE IF Len(arg) <= SunPathLen - 1
           THEN /\ res.status = "ok"
                /\ res.addr.len = os.sun_path_at + 1 + Len(arg)
                /\ as_ref(res.addr).kind = "Abstract"
                /\ as_ref(res.addr).bytes = arg
           ELSE res = Err("InvalidInput")

C2_Witness ==
    /\ op = "from_abstract"
    /\ os.abstract
    /\ Len(arg) = SunPathLen - 1
    /\ HasNul(arg)
    /\ res.status = "ok"

\* C3: new(s) looks at the first byte of s only: the empty s gives the
\* unspecified address (Unnamed); a leading '@' or NUL gives what
\* from_abstract gives for the rest of s (Abstract of the rest where
\* supported, an error where not); anything else gives what from_path(s)
\* gives, so "./@" is Path("./@").  Inner errors come back unchanged.
C3_NewDispatch ==
    op = "new"
        => IF arg = <<>>
           THEN res = Ok(new_unspecified) /\ as_ref(res.addr).kind = "Unnamed"
           ELSE IF arg[1] = AT \/ arg[1] = NUL
           THEN /\ res = from_abstract(Tail(arg))
                /\ ~os.abstract => res = Err("AddrNotAvailable")
                /\ (os.abstract /\ Len(arg) <= SunPathLen)
                      => /\ res.status = "ok"
                         /\ as_ref(res.addr).kind = "Abstract"
                         /\ as_ref(res.addr).bytes = Tail(arg)
           ELSE /\ res = from_path(arg)
                /\ (arg = <<DOT, SLASH, AT>>)
                      => /\ res.status = "ok"
                         /\ as_ref(res.addr).kind = "Path"
                         /\ as_ref(res.addr).bytes = arg

C3_Witness ==
    /\ op = "new"
    /\ arg = <<NUL, DOT, NUL>>
    /\ os.abstract
    /\ res.status = "ok"
    /\ as_ref(res.addr).bytes = <<DOT, NUL>>

Constructors ==
    {"new", "new_unspecified", "from_path", "from_abstract", "from_c_str",
     "from_std", "from_raw", "new_from_ffi"}

\* C4: every address returned by new, new_unspecified, from_path,
\* from_abstract, from_c_str, from_std, from_raw or new_from_ffi has
\* offset <= len <= size of sockaddr_un.
C4_LenWithinBounds ==
    (op \in Constructors /\ res.status = "ok")
        => /\ os.sun_path_at <= res.addr.len
           /\ res.addr.len <= os.sun_path_at + SunPathLen

\* C5: in new_from_ffi, when the operation succeeds, leaves AF_UNIX and a
\* path address (len beyond the offset, first path byte not NUL): a
\* reported len above capacity + 1 fails with InvalidData, a reported len of
\* capacity or capacity + 1 succeeds with len set to capacity, and a
\* returned len is never above capacity.
C5_PathTruncation ==
    (/\ op = "new_from_ffi"
     /\ arg.ok
     /\ arg.written.sun_family = AF_UNIX
     /\ arg.written.len > os.sun_path_at
     /\ arg.written.sun_path[1] # NUL)
        => LET capacity == os.sun_path_at + SunPathLen
               reported == arg.written.len
           IN  /\ reported > capacity + 1
                     => (res.status = "err" /\ res.kind = "InvalidData")
               /\ reported \in {capacity, capacity + 1}
                     => /\ res.status = "ok"
                        /\ res.ret = arg.ret
                        /\ res.addr.len = capacity
                        /\ res.addr.sun_path = arg.written.sun_path
               /\ res.status = "ok" => res.addr.len <= capacity

C5_Witness ==
    /\ op = "new_from_ffi"
    /\ arg.ok
    /\ arg.written.sun_family = AF_UNIX
    /\ ~HasNul(arg.written.sun_path)
    /\ arg.written.len = os.sun_path_at + SunPathLen + 1
    /\ res.status = "ok"
    /\ res.addr.len = os.sun_path_at + SunPathLen

\* C6: from_raw with a non-null pointer, offset <= len <= offset +
\* max_path_len() and the AF_UNIX family succeeds and returns an address of
\* that len whose first len - offset path bytes are those of the source.
C6_FromRawCopies ==
    (/\ op = "from_raw"
     /\ ~arg.null
     /\ os.sun_path_at <= arg.len
     /\ arg.len <= os.sun_path_at + SunPathLen
     /\ arg.sa_family = AF_UNIX)
        => /\ res.status = "ok"
           /\ res.addr.len = arg.len
           /\ SubSeq(res.addr.sun_path, 1, arg.len - os.sun_path_at)
                = SubSeq(arg.sun_path, 1, arg.len - os.sun_path_at)

\* C7: from_raw fails with InvalidInput for a null pointer with a nonzero
\* len, for len < offset and for len > offset + max_path_len(); with
\* InvalidData for a len in range and a family other than AF_UNIX; with a
\* null pointer and len 0 it returns an Unnamed address; a failure returns
\* no address.
C7_FromRawErrors ==
    op = "from_raw"
        => /\ (arg.null /\ arg.len # 0) => res = Err("InvalidInput")
           /\ (~arg.null /\ arg.len < os.sun_path_at) => res = Err("InvalidInput")
           /\ (~arg.null /\ arg.len > os.sun_path_at + SunPathLen)
                 => res = Err("InvalidInput")
           /\ (/\ ~arg.null
               /\ arg.len >= os.sun_path_at
               /\ arg.len <= os.sun_path_at + SunPathLen
               /\ arg.sa_family # AF_UNIX) => res = Err("InvalidData")
           /\ (arg.null /\ arg.len = 0)
                 => /\ res.status = "ok"
                    /\ as_ref(res.addr).kind = "Unnamed"
           /\ res.status = "err" => (cur = <<>> /\ res.addr = NoAddr)

C7_Witness ==
    /\ op = "from_raw"
    /\ ~arg.null
    /\ arg.len = os.sun_path_at
    /\ arg.sa_family # AF_UNIX
    /\ res = Err("InvalidData")

\* b is a with other bytes beyond the used length
PaddingDiffers(a, b) ==
    /\ a.len = b.len
    /\ a.sun_path # b.sun_path
    /\ \A i \in 1..SunPathLen :
          i <= a.len - os.sun_path_at => a.sun_path[i] = b.sun_path[i]

\* a is a path whose used bytes end in a byte other than NUL, and b is a
\* with one NUL appended inside the used length
TrailingNulAdded(a, b) ==
    /\ a.len > os.sun_path_at
    /\ a.len < os.sun_path_at + SunPathLen
    /\ a.sun_path[1] # NUL
    /\ a.sun_path[a.len - os.sun_path_at] # NUL
    /\ b.len = a.len + 1
    /\ b.sun_path = [a.sun_path EXCEPT ![a.len - os.sun_path_at + 1] = NUL]

\* C8: two addresses are equal, and hash alike, exactly when their views
\* have the same kind and the same payload bytes; bytes beyond the used
\* length and one trailing NUL of a path change neither equality, hash nor
\* view.
C8_EqualIffSameView ==
    (op = "eq" /\ res.status = "ok")
        => LET x == as_ref(Held)
               y == as_ref(arg)
           IN  /\ res.value <=> SameKindAndPayload(x, y)
               /\ res.value => hash(Held) = hash(arg)
               /\ PaddingDiffers(Held, arg)
                     => res.value /\ SameKindAndPayload(x, y)
               /\ (TrailingNulAdded(Held, arg) \/ TrailingNulAdded(arg, Held))
                     => res.value /\ SameKindAndPayload(x, y)

\* C9: on an address with offset <= len <= size of sockaddr_un the view
\* derivation does not fail, reads no byte of sun_path at or beyond index
\* len - offset, and gives Unnamed when len - offset <= 0, Abstract of the
\* bytes after the first when the first byte is NUL, and otherwise Path of
\* the used bytes less at most one trailing NUL.
C9_ViewTotal ==
    (/\ op = "as_ref"
     /\ os.sun_path_at <= Held.len
     /\ Held.len <= os.sun_path_at + SunPathLen)
        => LET n == Held.len - os.sun_path_at
               used == SubSeq(Held.sun_path, 1, n)
           IN  /\ ~res.panicked
               /\ res.reads \subseteq 0..(n - 1)
               /\ IF n <= 0 THEN res.kind = "Unnamed" /\ res.bytes = <<>>
                  ELSE IF Held.sun_path[1] = NUL
                  THEN res.kind = "Abstract" /\ res.bytes = Tail(used)
                  ELSE /\ res.kind = "Path"
                       /\ \/ res.bytes = used /\ used[n] # NUL
                          \/ res.bytes \o <<NUL>> = used

C9_Witness ==
    /\ op = "as_ref"
    /\ Held.len = os.sun_path_at + SunPathLen
    /\ ~HasNul(Held.sun_path)
    /\ res.kind = "Path"
    /\ res.bytes = Held.sun_path

\* C10: new_unspecified() has an all zero sun_path, the AF_UNIX family and
\* len equal to the offset of sun_path, whatever the layout.
C10_UnspecifiedLenIsOffset ==
    op = "new_unspecified"
        => /\ res.status = "ok"
           /\ \A i \in 1..SunPathLen : res.addr.sun_path[i] = 0
           /\ res.addr.sun_family = AF_UNIX
           /\ res.addr.len = os.sun_path_at

\* C11: from_path fails with NotFound for the empty path, with InvalidInput
\* for a path longer than max_path_len() and with InvalidInput for a path
\* with a NUL byte, and succeeds otherwise; emptiness is tested before
\* length and length before NUL (a path both too long and holding a NUL is
\* reported as too long), and a failure returns no address.
C11_FromPathErrors ==
    op = "from_path"
        => /\ IF arg = <<>>
              THEN res = ErrMsg("NotFound", "path is empty")
              ELSE IF Len(arg) > SunPathLen
              THEN res = ErrMsg("InvalidInput", "path is too long for an unix socket address")
              ELSE IF HasNul(arg)
              THEN res = ErrMsg("InvalidInput", "path cannot contain nul bytes")
              ELSE res.status = "ok"
           /\ res.status = "err" => (cur = <<>> /\ res.addr = NoAddr)

C11_Witness ==
    /\ op = "from_path"
    /\ Len(arg) > SunPathLen
    /\ HasNul(arg)
    /\ res.status = "err"
    /\ res.msg = "path is too long for an unix socket address"

FamilyMessage == "file descriptor did not correspond to a Unix socket"

\* C12: in new_from_ffi, when the operation succeeds but leaves a family
\* other than AF_UNIX, the call fails with InvalidData whatever the
\* reported length and the bytes, returning neither the operation's result
\* nor an address; the family is checked before any truncation (the error
\* is the family error also when the length is past every limit).
C12_FamilyCheckedFirst ==
    (op = "new_from_ffi" /\ arg.ok /\ arg.written.sun_family # AF_UNIX)
        => /\ res.status = "err"
           /\ res.kind = "InvalidData"
           /\ res.msg = FamilyMessage
           /\ res.ret = "none"
           /\ res.addr = NoAddr
           /\ cur = <<>>

C12_Witness ==
    /\ op = "new_from_ffi"
    /\ arg.ok
    /\ arg.written.sun_family # AF_UNIX
    /\ arg.written.sun_path[1] # NUL
    /\ arg.written.len = os.sun_path_at + SunPathLen + 2
    /\ res.msg = FamilyMessage

\* C13: new_from_ffi invokes the operation exactly once per call, on a
\* zero filled AF_UNIX buffer with the length set to the full capacity; a
\* failure of the operation is returned as it is, with no address; no
\* failure, of the operation or of the validation, makes it invoke the
\* operation again.
C13_CalledOnce ==
    op = "new_from_ffi"
        => /\ res.calls = 1
           /\ res.handed = [sun_family |-> AF_UNIX,
                            sun_path |-> [i \in 1..SunPathLen |-> 0],
                            len |-> os.sun_path_at + SunPathLen]
           /\ ~arg.ok => /\ res.status = "err"
                         /\ res.kind = arg.error
                         /\ res.msg = ""
                         /\ res.addr = NoAddr
                         /\ cur = <<>>

C13_Witness ==
    /\ op = "new_from_ffi"
    /\ ~arg.ok
    /\ res.status = "err"
    /\ res.kind = "WouldBlock"
    /\ res.calls = 1

\* C14: in new_from_ffi, when the operation succeeds with AF_UNIX and
\* leaves an abstract address (len beyond the offset, first path byte NUL),
\* a reported len above capacity fails with InvalidData and a reported len
\* of at most capacity is returned with len and bytes unchanged, on every
\* platform.
C14_AbstractTruncation ==
    (/\ op = "new_from_ffi"
     /\ arg.ok
     /\ arg.written.sun_family = AF_UNIX
     /\ arg.written.len > os.sun_path_at
     /\ arg.written.sun_path[1] = NUL)
        => IF arg.written.len > os.sun_path_at + SunPathLen
           THEN res.status = "err" /\ res.kind = "InvalidData"
           ELSE res.status = "ok" /\ res.addr = arg.written

\* C15: when new_from_ffi is given a path address with a reported len below
\* capacity it succeeds and the last byte inside the returned len is NUL: if
\* the last reported byte was not NUL, len grows by exactly one and a NUL is
\* written at the new last position, otherwise len and bytes are unchanged;
\* the written index is inside sun_path and len does not exceed capacity.
C15_PathNulTerminated ==
    (/\ op = "new_from_ffi"
     /\ arg.ok
     /\ arg.written.sun_family = AF_UNIX
     /\ arg.written.len > os.sun_path_at
     /\ arg.written.sun_path[1] # NUL
     /\ arg.written.len < os.sun_path_at + SunPathLen)
        => LET n == arg.written.len - os.sun_path_at
           IN  /\ res.status = "ok"
               /\ res.addr.len <= os.sun_path_at + SunPathLen
               /\ res.addr.sun_path[res.addr.len - os.sun_path_at] = NUL
               /\ res.writes \subseteq 0..(SunPathLen - 1)
               /\ IF arg.written.sun_path[n] # NUL
                  THEN /\ res.addr.len = arg.written.len + 1
                       /\ res.addr.sun_path = [arg.written.sun_path EXCEPT ![n + 1] = NUL]
                       /\ res.writes = {n}
                  ELSE /\ res.addr = arg.written
                       /\ res.writes = {}

C15_Witness ==
    /\ op = "new_from_ffi"
    /\ res.status = "ok"
    /\ arg.written.len = os.sun_path_at + SunPathLen - 1
    /\ ~HasNul(arg.written.sun_path)
    /\ res.addr.len = os.sun_path_at + SunPathLen
    /\ res.addr.sun_path[SunPathLen] = NUL

KindPredicates ==
    {"is_unnamed", "is_abstract", "is_path", "is_absolute_path", "is_relative_path"}

\* how many of the given truth values are true
CountTrue(bs) == Cardinality({i \in 1..Len(bs) : bs[i]})

\* C17: for every address with len <= size of sockaddr_un, on every
\* platform, is_unnamed() holds exactly when the view is Unnamed,
\* is_abstract() exactly when it is Abstract, is_path() exactly when it is
\* Path; is_absolute_path() and is_relative_path() split is_path() in two
\* disjoint cases; exactly one of is_unnamed, is_abstract, is_path holds.
C17_PredicatesAgreeWithView ==
    (op \in KindPredicates /\ Held.len <= os.sun_path_at + SunPathLen)
        => LET v == as_ref(Held)
           IN  /\ op = "is_unnamed" => (res.value <=> v.kind = "Unnamed")
               /\ op = "is_abstract" => (res.value <=> v.kind = "Abstract")
               /\ op = "is_path" => (res.value <=> v.kind = "Path")
               /\ is_path(Held) <=> (is_absolute_path(Held) \/ is_relative_path(Held))
               /\ ~(is_absolute_path(Held) /\ is_relative_path(Held))
               /\ CountTrue(<<is_unnamed(Held), is_abstract(Held), is_path(Held)>>) = 1

\* C18: when the operation succeeds with AF_UNIX and a reported len of at
\* most capacity, new_from_ffi succeeds, the view of what it returns has the
\* kind and the payload of the view of what the operation left, and the
\* only byte that may differ is the one that received the terminating NUL.
C18_NormalizationKeepsView ==
    (/\ op = "new_from_ffi"
     /\ arg.ok
     /\ arg.written.sun_family = AF_UNIX
     /\ arg.written.len <= os.sun_path_at + SunPathLen)
        => /\ res.status = "ok"
           /\ SameKindAndPayload(as_ref(res.addr), as_ref(arg.written))
           /\ res.addr.sun_family = arg.written.sun_family
           /\ Cardinality(res.writes) <= 1
           /\ \A i \in 1..SunPathLen :
                 IF (i - 1) \in res.writes
                 THEN res.addr.sun_path[i] = NUL /\ i = res.addr.len - os.sun_path_at
                 ELSE res.addr.sun_path[i] = arg.written.sun_path[i]

C18_Witness ==
    /\ op = "new_from_ffi"
    /\ res.status = "ok"
    /\ arg.written.len < os.sun_path_at + SunPathLen
    /\ res.writes # {}
    /\ res.addr.sun_path # arg.written.sun_path
    /\ as_ref(res.addr).kind = "Path"
    /\ as_ref(res.addr).bytes = as_ref(arg.written).bytes

\* the held address is what new(s) returns for the compared byte string s
HeldIsNewOf(s) == new(s).status = "ok" /\ new(s).addr = Held

\* C19 as claimed: whenever new(s) succeeds, the returned address equals s
\* under the comparison with a byte slice, in both argument orders.
C19_NewEqualsItsInput ==
    (op \in {"eq_bytes", "bytes_eq"} /\ HeldIsNewOf(arg))
        => res.status = "ok" /\ res.value

\* C19 amended: whenever new(s) succeeds and s does not start with '@', the
\* returned address equals s under the comparison with a byte slice, in
\* both argument orders (the empty s and the Unnamed address, a path and its
\* Path address, a name behind a NUL and its Abstract address); when s
\* starts with '@' the comparison is false.
C19_NewEqualsUnescapedInput ==
    (op \in {"eq_bytes", "bytes_eq"} /\ HeldIsNewOf(arg))
        => /\ res.status = "ok"
           /\ res.value <=> ~(arg # <<>> /\ arg[1] = AT)

C19_Witness ==
    /\ op = "bytes_eq"
    /\ HeldIsNewOf(arg)
    /\ Len(arg) = SunPathLen
    /\ arg[1] = NUL
    /\ as_ref(Held).kind = "Abstract"
    /\ res.value
====
